---- MODULE Spec2Model ----
(***************************************************************************)
(* A model of the ALSA <-> Oboe PCM I/O plugin (src/pcm_oboe.cpp).         *)
(*                                                                         *)
(* One OboePcm object is created by the plugin entry point and reached by  *)
(* the host through ext->private_data.  Host threads call the callbacks of *)
(* the callback table; every callback but Close takes the object's mutex   *)
(* for its whole body.  The Oboe stream is the environment: its requests   *)
(* may be accepted or rejected, its state settles asynchronously and its   *)
(* counters advance on their own.                                          *)
(***************************************************************************)
EXTENDS Integers, Sequences, FiniteSets, TLC

(* ---------------------------------------------------------------- bounds *)

\* Backend open requests issued over a run.
MaxOpens == 2
\* Cap of the backend's frames-written counter.
MaxFrames == 2
\* Largest frame count of one Transfer call.
MaxSize == 2
\* Resolution of tv_nsec inside one second.
NsecPerSec == 2

(* ------------------------------------------------------ program constants *)

EBADFD == 77
EIO == 5
EAGAIN == 11
\* constexpr static int64_t TimeoutNanoseconds{36000000000}, in whole seconds
\* (36000000000 ns / 1000000000): TLC's integers have 32 bits.
TimeoutSeconds == 36
\* start.tv_sec += 1
DrainTimeoutSeconds == 1
\* The nominal buffer size the host negotiated, in frames (ext->buffer_size).
BufferSize == 2

\* Seconds of the monotonic clock that Drain tells apart after it began: up
\* to the first full second past its deadline.
MaxSec == DrainTimeoutSeconds + 1

Threads == {"t1", "t2"}
NULL == "null"
THIS == "this"
FREE == "free"

\* The formats Prepare can find in ext->format: the four of the negotiation
\* table and one outside it.
HostFormats == {"S16_LE", "FLOAT_LE", "S24_3LE", "S32_LE", "U8"}

StreamStates == {"Open", "Starting", "Started", "Pausing", "Paused", "Flushing",
                 "Flushed", "Stopping", "Stopped", "Disconnected"}

Ops == {"Start", "Stop", "Pointer", "Transfer", "Close", "Prepare", "Drain", "Pause"}

VARIABLES
    private_data,   \* ext->private_data: THIS or NULL
    stream,         \* OboePcm::stream: 0 (empty) or the id of the backend stream
    mutex,          \* OboePcm::mutex: FREE or the thread that holds it
    ext,            \* the host's plugin structure: whether the build defines NDEBUG
    opens,          \* number of openStream requests the backend has seen
    openHandles,    \* ids of the backend streams that are open
    bstate,         \* state of the backend stream
    framesWritten,  \* backend counter
    framesRead,     \* backend counter
    capacity,       \* buffer capacity the backend granted at the last open
    pc,             \* per thread: position in its callback
    op,             \* per thread: the callback it is in (or was last in)
    self,           \* per thread: the local `self` read from ext->private_data
    loc,            \* per thread: the arguments and locals of the callback
    ret,            \* per thread: the value the last callback returned
    log,            \* per thread: backend calls of the current callback, in
                    \*             order of first use
    budget          \* callbacks the host may still invoke; -1: any number

bridge == <<private_data, stream, mutex, ext>>
backend == <<opens, openHandles, bstate, framesWritten, framesRead, capacity>>
vars == <<private_data, stream, mutex, ext, opens, openHandles, bstate,
          framesWritten, framesRead, capacity, pc, op, self, loc,
          ret, log, budget>>

(* --------------------------------------------------------------- helpers *)

Range(s) == {s[i] : i \in 1..Len(s)}

Min(a, b) == IF a < b THEN a ELSE b

\* The record of backend calls of one callback: each call once, in the order
\* of its first use.
Logged(l, c) == IF c \in Range(l) THEN l ELSE Append(l, c)

Time(s, n) == [tv_sec |-> s, tv_nsec |-> n]

ZeroTime == Time(0, 0)

Times == {Time(s, n) : s \in 0..MaxSec, n \in 0..(NsecPerSec - 1)}

\* now.tv_sec > start.tv_sec || (now.tv_sec == start.tv_sec && now.tv_nsec > start.tv_nsec)
TimeAfter(a, b) ==
    \/ a.tv_sec > b.tv_sec
    \/ (a.tv_sec = b.tv_sec /\ a.tv_nsec > b.tv_nsec)

\* The arguments and locals of a callback that is not running:
\*   size, interleaved  Transfer's size argument, and whether its areas are
\*                      interleaved
\*   format             ext->format as Prepare reads it
\*   nonblock           ext->nonblock as Transfer reads it
\*   state              the local `state` of Stop and Drain
\*   result             the local `result` of Transfer's backend write: the
\*                      number of frames accepted, or -1 for an error
\*   framesRead         the local `framesRead` of Drain's loop
\*   start, now         Drain's deadline (start plus one second) and its last
\*                      clock reading
NoLocals ==
    [size |-> 0, interleaved |-> TRUE, format |-> "S16_LE", nonblock |-> FALSE,
     state |-> "Open", result |-> 0,
     framesRead |-> 0, start |-> ZeroTime, now |-> ZeroTime]

\* A thread is inside the section of a callback that the scoped lock covers.
InCS(t) == pc[t] \notin {"idle", "entry", "done", "crashed"}

Crashed == \E t \in Threads : pc[t] = "crashed"

\* A crashed process takes no further step.
Alive == ~Crashed

(* ------------------------------------------------------------------ Init *)

Init ==
    /\ private_data = THIS
    /\ stream = 0
    /\ mutex = FREE
    /\ ext \in [ndebug : BOOLEAN]
    /\ opens = 0
    /\ openHandles = {}
    /\ bstate = "Open"
    /\ framesWritten = 0
    /\ framesRead = 0
    /\ capacity = 0
    /\ pc = [t \in Threads |-> "idle"]
    /\ op = [t \in Threads |-> "Close"]
    /\ self = [t \in Threads |-> NULL]
    /\ loc = [t \in Threads |-> NoLocals]
    /\ ret = [t \in Threads |-> 0]
    /\ log = [t \in Threads |-> <<>>]
    /\ budget = -1

(* ----------------------------------------------------- the Oboe backend *)

\* Results a backend request (requestStart, requestPause, requestFlush,
\* requestStop) can have: TRUE is Result::OK.  A disconnected stream accepts
\* nothing.
RequestResults(b) == IF b = "Disconnected" THEN {FALSE} ELSE BOOLEAN

\* Results of waitForStateChange(input, &next, timeout): it returns OK with the
\* current state once that differs from `input`; while the state equals
\* `input` it blocks, and ends with an error when the timeout expires.  An
\* error is possible at any time.
WaitResults(input, b) ==
    {[ok |-> FALSE, next |-> b]} \cup
    (IF b # input THEN {[ok |-> TRUE, next |-> b]} ELSE {})

\* Values getFramesWritten()/getFramesRead() can return: the counter, or a
\* negative error code.
CounterResults(c) == {c, -1}

\* Capacities getBufferCapacityInFrames() can report after an open.
Capacities == {BufferSize - 1, BufferSize}

\* Results of write(address, size, timeout): an error (-1 here), or the number
\* of frames accepted, 0..size.
WriteResults(n, fw) == {-1} \cup (0..Min(n, MaxFrames - fw))

\* The timed backend calls as the backend sees them, with the timeout they
\* are given, in seconds.
WaitCall(timeout) == "waitForStateChange(" \o ToString(timeout) \o ")"

WriteCall(timeout) == "write(" \o ToString(timeout) \o ")"

\* A transitional state settles.
Settled(b) ==
    CASE b = "Starting" -> "Started"
      [] b = "Pausing"  -> "Paused"
      [] b = "Flushing" -> "Flushed"
      [] b = "Stopping" -> "Stopped"
      [] OTHER          -> b

BackendSettle ==
    /\ Alive
    /\ openHandles # {}
    /\ Settled(bstate) # bstate
    /\ bstate' = Settled(bstate)
    /\ UNCHANGED <<bridge, opens, openHandles, framesWritten, framesRead, capacity, pc, op, self, loc, ret, log, budget>>

\* The device consumes a frame of a started stream.
BackendConsume ==
    /\ Alive
    /\ openHandles # {}
    /\ bstate = "Started"
    /\ framesRead < framesWritten
    /\ framesRead' = framesRead + 1
    /\ UNCHANGED <<bridge, opens, openHandles, bstate, framesWritten, capacity, pc, op, self, loc, ret, log, budget>>

\* The device goes away.
BackendDisconnect ==
    /\ Alive
    /\ openHandles # {}
    /\ bstate # "Disconnected"
    /\ bstate' = "Disconnected"
    /\ UNCHANGED <<bridge, opens, openHandles, framesWritten, framesRead, capacity, pc, op, self, loc, ret, log, budget>>

(* ------------------------------------------------------- call and return *)

\* The callback returns r: the scoped lock is released, the locals die.
Return(t, r) ==
    /\ pc' = [pc EXCEPT ![t] = "done"]
    /\ ret' = [ret EXCEPT ![t] = r]
    /\ loc' = [loc EXCEPT ![t] = NoLocals]
    /\ mutex' = FREE

\* The thread moves on to position p inside its callback with locals l,
\* keeping the lock.
Goto(t, p, l) ==
    /\ pc' = [pc EXCEPT ![t] = p]
    /\ loc' = [loc EXCEPT ![t] = l]
    /\ UNCHANGED <<mutex, ret>>

\* What no step inside a callback changes.
Frame == UNCHANGED <<private_data, ext, op, self, budget>>

\* The host invokes one more callback.
Invoke ==
    /\ budget # 0
    /\ budget' = IF budget < 0 THEN budget ELSE budget - 1

\* The host calls a callback that locks: auto* self{static_cast<OboePcm*>(ext->private_data)}
Call(t, o, n, il, f) ==
    /\ Alive
    /\ pc[t] \in {"idle", "done"}
    /\ Invoke
    /\ o \in Ops \ {"Close"}
    /\ o = "Prepare" =>
           opens + Cardinality({u \in Threads : op[u] = "Prepare" /\ pc[u] \in {"entry", "locked"}}) < MaxOpens
    /\ pc' = [pc EXCEPT ![t] = "entry"]
    /\ op' = [op EXCEPT ![t] = o]
    /\ self' = [self EXCEPT ![t] = private_data]
    /\ loc' = [loc EXCEPT ![t] = [NoLocals EXCEPT !.size = n, !.interleaved = il,
                                                    !.format = f]]
    /\ log' = [log EXCEPT ![t] = <<>>]
    /\ UNCHANGED <<bridge, backend, ret>>

\* A lock that never waits.
LockFree_NoWait(m) == TRUE

\* Whether lock() on the mutex may proceed.
LockFree(m) == m = FREE

\* std::scoped_lock lock{self->mutex} with a live object.
Lock(t) ==
    /\ Alive
    /\ pc[t] = "entry"
    /\ self[t] # NULL
    /\ LockFree(mutex)
    /\ mutex' = t
    /\ pc' = [pc EXCEPT ![t] = "locked"]
    /\ UNCHANGED <<private_data, stream, ext, backend, op, self, loc, ret, log, budget>>

\* What a callback can return when it goes on after using a null `self`.
UBReturns == {0, -1, -EBADFD}

\* std::scoped_lock lock{self->mutex} with self == nullptr: undefined
\* behaviour.  The process dies, or the callback returns some value without
\* having reached the object.
NullDeref(t) ==
    /\ Alive
    /\ pc[t] = "entry"
    /\ self[t] = NULL
    /\ \/ /\ pc' = [pc EXCEPT ![t] = "crashed"]
          /\ UNCHANGED <<ret, loc>>
       \/ \E r \in UBReturns :
             /\ pc' = [pc EXCEPT ![t] = "done"]
             /\ ret' = [ret EXCEPT ![t] = r]
             /\ loc' = [loc EXCEPT ![t] = NoLocals]
    /\ UNCHANGED <<bridge, backend, op, self, log, budget>>

(* ------------------------------------------------------- Start and Pause *)

\* The check for a missing stream left out.
NoStream_Unchecked(s) == FALSE

\* if (!self->stream) return -EBADFD;
NoStream(s) == s = 0

Start(t) ==
    /\ Alive
    /\ pc[t] = "locked" /\ op[t] = "Start"
    /\ Frame
    /\ UNCHANGED <<stream, opens, openHandles, framesWritten, framesRead, capacity>>
    /\ IF NoStream(stream)
       THEN Return(t, -EBADFD) /\ UNCHANGED <<bstate, log>>
       ELSE \E ok \in RequestResults(bstate) :
               /\ log' = [log EXCEPT ![t] = Logged(@, "requestStart")]
               /\ bstate' = IF ok THEN "Starting" ELSE bstate
               /\ Return(t, IF ok THEN 0 ELSE -1)

Pause(t) ==
    /\ Alive
    /\ pc[t] = "locked" /\ op[t] = "Pause"
    /\ Frame
    /\ UNCHANGED <<stream, opens, openHandles, framesWritten, framesRead, capacity>>
    /\ IF NoStream(stream)
       THEN Return(t, -EBADFD) /\ UNCHANGED <<bstate, log>>
       ELSE \E ok \in RequestResults(bstate) :
               /\ log' = [log EXCEPT ![t] = Logged(@, "requestPause")]
               /\ bstate' = IF ok THEN "Pausing" ELSE bstate
               /\ Return(t, IF ok THEN 0 ELSE -1)

(* --------------------------------------------------------------- Pointer *)

\* The absolute counter handed out as the position.
PointerValue_Raw(fw, bufferSize) == fw

\* return framesWritten % ext->buffer_size;
PointerValue(fw, bufferSize) == fw % bufferSize

Pointer(t) ==
    /\ Alive
    /\ pc[t] = "locked" /\ op[t] = "Pointer"
    /\ Frame
    /\ UNCHANGED <<stream, backend>>
    /\ IF NoStream(stream)
       THEN Return(t, -EBADFD) /\ UNCHANGED log
       ELSE \E fw \in CounterResults(framesWritten) :
               /\ log' = [log EXCEPT ![t] = Logged(@, "getFramesWritten")]
               /\ Return(t, IF fw < 0 THEN -1 ELSE PointerValue(fw, BufferSize))

(* -------------------------------------------------------------- Transfer *)

\* The check for an empty transfer left out.
TransferEmpty_Unchecked(n) == FALSE

\* if (size == 0) return 0;
TransferEmpty(n) == n = 0

\* An implicit start for a stream that was never started only.
TransferNeedsStart_OpenOnly(b) == b = "Open"

\* if (self->stream->getState() != oboe::StreamState::Started)
TransferNeedsStart(b) == b # "Started"

\* The debug build's check of the channel areas.
TransferRejectsAreas(ndebug, il) == ~ndebug /\ ~il

\* Transfer up to the backend write: lines 106-135.
Transfer(t) ==
    /\ Alive
    /\ pc[t] = "locked" /\ op[t] = "Transfer"
    /\ Frame
    /\ UNCHANGED <<stream, opens, openHandles, framesWritten, framesRead, capacity>>
    /\ IF NoStream(stream)
       THEN Return(t, -EBADFD) /\ UNCHANGED <<bstate, log>>
       ELSE IF TransferEmpty(loc[t].size)
       THEN Return(t, 0) /\ UNCHANGED <<bstate, log>>
       ELSE \E ok \in RequestResults(bstate), nb \in BOOLEAN :
               LET needs == TransferNeedsStart(bstate)
                   l1 == Logged(log[t], "getState")
               IN  /\ log' = [log EXCEPT ![t] =
                                 IF needs THEN Logged(l1, "requestStart") ELSE l1]
                   /\ bstate' = IF needs /\ ok THEN "Starting" ELSE bstate
                   /\ IF needs /\ ~ok
                      THEN Return(t, -1)
                      ELSE IF TransferRejectsAreas(ext.ndebug, loc[t].interleaved)
                      THEN Return(t, -1)
                      ELSE Goto(t, "write137", [loc[t] EXCEPT !.nonblock = nb])

\* ext->nonblock ? 0 : TimeoutNanoseconds
WriteTimeout(nonblock) == IF nonblock THEN 0 ELSE TimeoutSeconds

\* The backend write, blocking up to the timeout or not at all: line 137.
TransferWrite(t) ==
    /\ Alive
    /\ pc[t] = "write137"
    /\ Frame
    /\ UNCHANGED <<stream, opens, openHandles, bstate, framesRead, capacity>>
    /\ \E r \in WriteResults(loc[t].size, framesWritten) :
          /\ log' = [log EXCEPT ![t] = Logged(@, WriteCall(WriteTimeout(loc[t].nonblock)))]
          /\ framesWritten' = IF r > 0 THEN framesWritten + r ELSE framesWritten
          /\ Goto(t, "write138", [loc[t] EXCEPT !.result = r])

\* The number of accepted frames handed back as it is, zero included.
TransferResult_Zero(n) == n

\* The status of a backend write that went well and accepted n frames.
TransferResult(n) == IF n = 0 THEN -EAGAIN ELSE n

\* The status Transfer makes of the result of the write: lines 138-147.
TransferReturn(t) ==
    /\ Alive
    /\ pc[t] = "write138"
    /\ Frame
    /\ UNCHANGED <<stream, backend, log>>
    /\ Return(t, IF loc[t].result < 0 THEN -1 ELSE TransferResult(loc[t].result))

(* ----------------------------------------------------------------- Close *)

\* stream.reset(): the last reference goes and the backend stream is closed.
StreamReset(h, handles) == handles \ {h}

\* ext->private_data = nullptr;
\* auto* self{static_cast<OboePcm*>(ext->private_data)};
\* The pointer Close deletes is read after the field has been cleared.
CloseSelf(before, after) == after

\* A Close that reports a bridge that is already detached.
CloseStatus_Detached(attached) == IF attached THEN 0 ELSE -EBADFD

\* return 0, with the bridge attached or not.
CloseStatus(attached) == 0

\* Close takes no lock itself; `delete self` runs ~OboePcm(), which locks the
\* mutex and resets the stream, when self is not null.
Close(t) ==
    /\ Alive
    /\ pc[t] \in {"idle", "done"}
    /\ Invoke
    /\ pc' = [pc EXCEPT ![t] = "done"]
    /\ op' = [op EXCEPT ![t] = "Close"]
    /\ ret' = [ret EXCEPT ![t] = CloseStatus(private_data # NULL)]
    /\ log' = [log EXCEPT ![t] = <<>>]
    /\ UNCHANGED <<mutex, ext, opens, bstate, framesWritten, framesRead, capacity,
                   loc>>
    /\ IF private_data # NULL
       THEN /\ private_data' = NULL
            /\ self' = [self EXCEPT ![t] = CloseSelf(private_data, NULL)]
            /\ IF CloseSelf(private_data, NULL) # NULL
               THEN /\ mutex = FREE
                    /\ stream' = 0
                    /\ openHandles' = StreamReset(stream, openHandles)
               ELSE UNCHANGED <<stream, openHandles>>
       ELSE /\ self' = [self EXCEPT ![t] = NULL]
            /\ UNCHANGED <<private_data, stream, openHandles>>

(* --------------------------------------------------------------- Prepare *)

\* A mapping that leaves the choice of format to the backend when the host's
\* format is not one of the four.
MapFormat_Unspecified(fmt) ==
    CASE fmt = "S16_LE"   -> "I16"
      [] fmt = "FLOAT_LE" -> "Float"
      [] fmt = "S24_3LE"  -> "I24"
      [] fmt = "S32_LE"   -> "I32"
      [] OTHER            -> "Unspecified"

\* The format handed to the stream builder.
MapFormat(fmt) ==
    CASE fmt = "S16_LE"   -> "I16"
      [] fmt = "FLOAT_LE" -> "Float"
      [] fmt = "S24_3LE"  -> "I24"
      [] fmt = "S32_LE"   -> "I32"
      [] OTHER            -> "Invalid"

\* The open request as the backend sees it: builder.openStream with the
\* builder's format.
OpenStream(fmt) == "openStream(" \o fmt \o ")"

\* Results builder.openStream(self->stream) can have for a format: TRUE is
\* Result::OK.  The backend decides.
OpenResults(fmt) == BOOLEAN

\* The comparison of the capacities the wrong way round.
PrepareTooSmall_Inverted(cap, bufferSize) == cap > bufferSize

\* if (self->stream->getBufferCapacityInFrames() < ext->buffer_size)
PrepareTooSmall(cap, bufferSize) == cap < bufferSize

\* A Prepare that opens a stream each time.
PrepareHasStream_Never(s) == FALSE

\* if (self->stream) return 0;
PrepareHasStream(s) == s # 0

Prepare(t) ==
    /\ Alive
    /\ pc[t] = "locked" /\ op[t] = "Prepare"
    /\ Frame
    /\ IF PrepareHasStream(stream)
       THEN Return(t, 0) /\ UNCHANGED <<stream, backend, log>>
       ELSE \E ok \in OpenResults(MapFormat(loc[t].format)), cap \in Capacities :
               /\ opens' = opens + 1
               /\ IF ~ok
                  THEN /\ log' = [log EXCEPT ![t] = <<OpenStream(MapFormat(loc[t].format))>>]
                       /\ UNCHANGED <<stream, openHandles, bstate, framesWritten,
                                      framesRead, capacity>>
                       /\ Return(t, -1)
                  ELSE /\ log' = [log EXCEPT ![t] =
                                     <<OpenStream(MapFormat(loc[t].format)),
                                       "getBufferCapacityInFrames">>]
                       /\ bstate' = "Open"
                       /\ framesWritten' = 0
                       /\ framesRead' = 0
                       /\ capacity' = cap
                       /\ IF PrepareTooSmall(cap, BufferSize)
                          THEN /\ stream' = 0
                               /\ openHandles' = StreamReset(opens + 1, openHandles \cup {opens + 1})
                               /\ Return(t, -EIO)
                          ELSE /\ stream' = opens + 1
                               /\ openHandles' = openHandles \cup {opens + 1}
                               /\ Return(t, 0)

(* ------------------------------------------------------------------ Stop *)

\* The early return for a stopped stream only.
StopAlreadyStopped_StoppedOnly(b) == b = "Stopped"

\* if (state == oboe::StreamState::Stopped || state == oboe::StreamState::Flushed)
StopAlreadyStopped(b) == b \in {"Stopped", "Flushed"}

\* Lines 42-56: the checks and the pause request.
Stop(t) ==
    /\ Alive
    /\ pc[t] = "locked" /\ op[t] = "Stop"
    /\ Frame
    /\ UNCHANGED <<stream, opens, openHandles, framesWritten, framesRead, capacity>>
    /\ IF NoStream(stream)
       THEN Return(t, -EBADFD) /\ UNCHANGED <<bstate, log>>
       ELSE IF StopAlreadyStopped(bstate)
       THEN /\ log' = [log EXCEPT ![t] = Logged(@, "getState")]
            /\ UNCHANGED bstate
            /\ Return(t, 0)
       ELSE \E ok \in RequestResults(bstate) :
               /\ log' = [log EXCEPT ![t] =
                             Logged(Logged(@, "getState"), "requestPause")]
               /\ bstate' = IF ok THEN "Pausing" ELSE bstate
               /\ IF ok
                  THEN Goto(t, "stop58", [loc[t] EXCEPT !.state = bstate])
                  ELSE Return(t, -1)

\* state = self->stream->getState();  (line 58 and line 75)
StopGetState(t) ==
    /\ Alive
    /\ pc[t] \in {"stop58", "stop75"}
    /\ Frame
    /\ UNCHANGED <<stream, backend>>
    /\ log' = [log EXCEPT ![t] = Logged(@, "getState")]
    /\ Goto(t, IF pc[t] = "stop58" THEN "stop59" ELSE "stop76",
            [loc[t] EXCEPT !.state = bstate])

\* A Stop that goes on to the flush while the stream is still pausing.
StopPaused_OrPausing(s) == s \in {"Pausing", "Paused"}

\* while (state != oboe::StreamState::Paused)
StopPaused(s) == s = "Paused"

\* while (state != oboe::StreamState::Flushed)
StopFlushed(s) == s = "Flushed"

\* Lines 59-73: wait until Paused, then request the flush.
StopWaitPaused(t) ==
    /\ Alive
    /\ pc[t] = "stop59"
    /\ Frame
    /\ UNCHANGED <<stream, opens, openHandles, framesWritten, framesRead, capacity>>
    /\ IF ~StopPaused(loc[t].state)
       THEN \E w \in WaitResults(loc[t].state, bstate) :
               /\ log' = [log EXCEPT ![t] = Logged(@, WaitCall(TimeoutSeconds))]
               /\ UNCHANGED bstate
               /\ IF w.ok
                  THEN Goto(t, "stop59", [loc[t] EXCEPT !.state = w.next])
                  ELSE Return(t, -1)
       ELSE \E ok \in RequestResults(bstate) :
               /\ log' = [log EXCEPT ![t] = Logged(@, "requestFlush")]
               /\ bstate' = IF ok THEN "Flushing" ELSE bstate
               /\ IF ok
                  THEN Goto(t, "stop75", loc[t])
                  ELSE Return(t, -1)

\* Lines 76 and 84: the test of the second loop, and the return after it.
StopWaitFlushed(t) ==
    /\ Alive
    /\ pc[t] = "stop76"
    /\ Frame
    /\ UNCHANGED <<stream, backend, log>>
    /\ IF ~StopFlushed(loc[t].state)
       THEN Goto(t, "stop77", loc[t])
       ELSE Return(t, 0)

\* Lines 77-81: the wait of the second loop, which always waits for the state
\* to leave Flushing, whatever state was last seen.
StopFlushWait(t) ==
    /\ Alive
    /\ pc[t] = "stop77"
    /\ Frame
    /\ UNCHANGED <<stream, backend>>
    /\ \E w \in WaitResults("Flushing", bstate) :
          /\ log' = [log EXCEPT ![t] = Logged(@, WaitCall(TimeoutSeconds))]
          /\ IF w.ok
             THEN Goto(t, "stop76", [loc[t] EXCEPT !.state = w.next])
             ELSE Return(t, -1)

(* ----------------------------------------------------------------- Drain *)

\* The last clock value the model tells apart.
MaxTime == Time(MaxSec, NsecPerSec - 1)

\* Clock readings that can follow reading `a`: time only moves forward (and
\* the model's clock stays at its last value).
LaterTimes(a) == {b \in Times : TimeAfter(b, a) \/ (a = MaxTime /\ b = MaxTime)}

\* A valve that does not look at the clock.
DrainGivesUp_NoDeadline(tm, deadline, fr) == fr = 0

\* The condition of the safety valve, line 244.
DrainGivesUp(tm, deadline, fr) == TimeAfter(tm, deadline) /\ fr = 0

\* A Drain that does not wait for the frames to be read.
DrainDone_Always(fr, fw) == TRUE

\* if (framesRead == framesWritten) break;
DrainDone(fr, fw) == fr = fw

\* Lines 210-222: the check and the deadline, one second after the start.
Drain(t) ==
    /\ Alive
    /\ pc[t] = "locked" /\ op[t] = "Drain"
    /\ Frame
    /\ UNCHANGED <<stream, backend, log>>
    /\ IF NoStream(stream)
       THEN Return(t, -EBADFD)
       ELSE \E n0 \in 0..(NsecPerSec - 1) :
               Goto(t, "drain225",
                    [loc[t] EXCEPT !.now = Time(0, n0),
                                   !.start = Time(0 + DrainTimeoutSeconds, n0)])

\* Lines 225-238: read the two counters and compare them.
DrainPoll(t) ==
    /\ Alive
    /\ pc[t] = "drain225"
    /\ Frame
    /\ UNCHANGED <<stream, backend>>
    /\ \E fr \in CounterResults(framesRead), fw \in CounterResults(framesWritten) :
          IF fr < 0
          THEN /\ log' = [log EXCEPT ![t] = Logged(@, "getFramesRead")]
               /\ Return(t, -1)
          ELSE /\ log' = [log EXCEPT ![t] =
                             Logged(Logged(@, "getFramesRead"), "getFramesWritten")]
               /\ IF fw < 0
                  THEN Return(t, -1)
                  ELSE Goto(t, IF DrainDone(fr, fw) THEN "drain251" ELSE "drain240",
                            [loc[t] EXCEPT !.framesRead = fr])

\* Lines 240-248: sleep, read the clock, apply the safety valve.
DrainSleep(t) ==
    /\ Alive
    /\ pc[t] = "drain240"
    /\ Frame
    /\ UNCHANGED <<stream, backend, log>>
    /\ \E tm \in LaterTimes(loc[t].now) :
          Goto(t, IF DrainGivesUp(tm, loc[t].start, loc[t].framesRead)
                  THEN "drain251" ELSE "drain225",
               [loc[t] EXCEPT !.now = tm])

\* Lines 251-255: the stop request.
DrainStop(t) ==
    /\ Alive
    /\ pc[t] = "drain251"
    /\ Frame
    /\ UNCHANGED <<stream, opens, openHandles, framesWritten, framesRead, capacity>>
    /\ \E ok \in RequestResults(bstate) :
          /\ log' = [log EXCEPT ![t] = Logged(@, "requestStop")]
          /\ bstate' = IF ok THEN "Stopping" ELSE bstate
          /\ IF ok
             THEN Goto(t, "drain257", loc[t])
             ELSE Return(t, -1)

\* oboe::StreamState state{self->stream->getState()};  (line 257)
DrainGetState(t) ==
    /\ Alive
    /\ pc[t] = "drain257"
    /\ Frame
    /\ UNCHANGED <<stream, backend>>
    /\ log' = [log EXCEPT ![t] = Logged(@, "getState")]
    /\ Goto(t, "drain258", [loc[t] EXCEPT !.state = bstate])

\* Lines 258-266: wait until Stopped.
DrainWaitStopped(t) ==
    /\ Alive
    /\ pc[t] = "drain258"
    /\ Frame
    /\ UNCHANGED <<stream, backend>>
    /\ IF loc[t].state # "Stopped"
       THEN \E w \in WaitResults(loc[t].state, bstate) :
               /\ log' = [log EXCEPT ![t] = Logged(@, WaitCall(TimeoutSeconds))]
               /\ IF w.ok
                  THEN Goto(t, "drain258", [loc[t] EXCEPT !.state = w.next])
                  ELSE Return(t, -1)
       ELSE UNCHANGED log /\ Return(t, 0)

(* ------------------------------------------------------------------ Next *)

\* One step of a host thread.
ThreadStep(t) ==
    \/ \E o \in Ops \ {"Close", "Transfer", "Prepare"} : Call(t, o, 0, TRUE, "S16_LE")
    \/ \E n \in 0..MaxSize, il \in BOOLEAN : Call(t, "Transfer", n, il, "S16_LE")
    \/ \E f \in HostFormats : Call(t, "Prepare", 0, TRUE, f)
    \/ Lock(t)
    \/ NullDeref(t)
    \/ Start(t)
    \/ Pause(t)
    \/ Pointer(t)
    \/ Transfer(t)
    \/ TransferWrite(t)
    \/ TransferReturn(t)
    \/ Close(t)
    \/ Prepare(t)
    \/ Stop(t)
    \/ StopGetState(t)
    \/ StopWaitPaused(t)
    \/ StopWaitFlushed(t)
    \/ StopFlushWait(t)
    \/ Drain(t)
    \/ DrainPoll(t)
    \/ DrainSleep(t)
    \/ DrainStop(t)
    \/ DrainGetState(t)
    \/ DrainWaitStopped(t)

\* One step of the backend on its own.
BackendStep ==
    \/ BackendSettle
    \/ BackendConsume
    \/ BackendDisconnect

\* The host as the plugin framework drives it: one thread makes all the calls.
Next ==
    \/ ThreadStep("t1")
    \/ BackendStep

Spec == Init /\ [][Next]_vars

\* The steps a thread takes inside a callback it has been called into.
Run(t) ==
    \/ Lock(t)
    \/ NullDeref(t)
    \/ Start(t)
    \/ Pause(t)
    \/ Pointer(t)
    \/ Transfer(t)
    \/ TransferWrite(t)
    \/ TransferReturn(t)
    \/ Prepare(t)
    \/ Stop(t)
    \/ StopGetState(t)
    \/ StopWaitPaused(t)
    \/ StopWaitFlushed(t)
    \/ StopFlushWait(t)
    \/ Drain(t)
    \/ DrainPoll(t)
    \/ DrainSleep(t)
    \/ DrainStop(t)
    \/ DrainGetState(t)
    \/ DrainWaitStopped(t)

\* The same program under a scheduler that keeps a thread inside a callback
\* running (every backend call and every sleep returns), with a backend that
\* completes its state transitions and keeps consuming while it is started.
\* Nothing is assumed about which result a backend call returns.
FairSpec ==
    /\ Spec
    /\ WF_vars(Run("t1"))
    /\ WF_vars(BackendSettle)
    /\ WF_vars(BackendConsume)

\* Callbacks arriving from several host threads at once.
\* Callbacks the host threads invoke in all when they run concurrently: one
\* for each thread.
MaxCallsMT == Cardinality(Threads)

\* They start from a bridge at rest: with no stream yet, or with the stream of
\* a successful Prepare, nothing written yet, in any state the calls before
\* could have left it in.
InitMT ==
    /\ private_data = THIS
    /\ mutex = FREE
    /\ ext \in [ndebug : BOOLEAN]
    /\ \/ /\ stream = 0
          /\ opens = 0
          /\ openHandles = {}
          /\ capacity = 0
          /\ bstate = "Open"
          /\ framesWritten = 0
          /\ framesRead = 0
       \/ /\ stream = 1
          /\ opens = 1
          /\ openHandles = {1}
          /\ capacity = BufferSize
          /\ bstate \in StreamStates
          /\ framesWritten = 0
          /\ framesRead = 0
    /\ pc = [t \in Threads |-> "idle"]
    /\ op = [t \in Threads |-> "Close"]
    /\ self = [t \in Threads |-> NULL]
    /\ loc = [t \in Threads |-> NoLocals]
    /\ ret = [t \in Threads |-> 0]
    /\ log = [t \in Threads |-> <<>>]
    /\ budget = MaxCallsMT

NextMT ==
    \/ \E t \in Threads : ThreadStep(t)
    \/ BackendStep

SpecMT == InitMT /\ [][NextMT]_vars

TypeOK ==
    /\ private_data \in {THIS, NULL}
    /\ stream \in 0..MaxOpens
    /\ mutex \in Threads \cup {FREE}
    /\ openHandles \subseteq 1..MaxOpens
    /\ bstate \in StreamStates
    /\ framesWritten \in 0..MaxFrames
    /\ framesRead \in 0..MaxFrames
    /\ \A t \in Threads : ret[t] \in Int /\ op[t] \in Ops /\ loc[t].now \in Times


(* ---------------------------------------------------------------- claims *)

\* The formats of the negotiation table.
SupportedFormats == {"S16_LE", "FLOAT_LE", "S24_3LE", "S32_LE"}

\* Thread t leaves the first, locked step of callback o in this step.
Body(t, o) == pc[t] = "locked" /\ op[t] = o /\ pc'[t] # pc[t]

\* The step leaves the backend alone.
BackendUntouched == UNCHANGED backend

\* C1: after Close has returned, no backend stream that an earlier Prepare
\* opened is still open, and the bridge holds none.
C1_ReleasedAfterClose ==
    \A t \in Threads :
        (op[t] = "Close" /\ pc[t] = "done") => (openHandles = {} /\ stream = 0)

\* C2: a Position call made after Close returns NotReady (-EBADFD) and does
\* not crash.
C2_PositionAfterClose ==
    \A t \in Threads :
        (op[t] = "Pointer" /\ self[t] = NULL /\ pc[t] # "entry")
            => (pc[t] = "done" /\ ret[t] = -EBADFD)

\* C3: at most one thread is inside the section of a callback that reads or
\* changes the backend handle, and it is the one that holds the mutex; a Stop
\* issued while a Write is in flight has made no backend call; the handle the
\* bridge holds is the one open backend stream.
C3_MutualExclusion ==
    /\ Cardinality({t \in Threads : InCS(t)}) <= 1
    /\ \A t \in Threads : InCS(t) => mutex = t
    /\ \A t, u \in Threads :
          (pc[t] = "write137" /\ u # t /\ op[u] = "Stop"
             /\ pc[u] \notin {"idle", "done", "crashed"})
              => (pc[u] = "entry" /\ log[u] = <<>>)
    /\ openHandles = IF stream = 0 THEN {} ELSE {stream}

\* A Stop has been issued while a Write is in flight.
C3_Witness ==
    \E t, u \in Threads :
        /\ pc[t] = "write137"
        /\ op[u] = "Stop" /\ pc[u] = "entry" /\ self[u] = THIS

\* C4: Close never detaches the bridge while a callback of another thread is
\* inside its critical section.
C4_CloseSerialized ==
    [][(private_data = THIS /\ private_data' = NULL)
          => \A t \in Threads : ~InCS(t)]_vars

\* C5: a Prepare that finds a handle returns success, makes no backend call
\* and leaves the handle and the count of open requests as they were.
C5_PrepareIdempotent ==
    [][\A t \in Threads :
          (Body(t, "Prepare") /\ stream # 0)
              => /\ pc'[t] = "done" /\ ret'[t] = 0
                 /\ log'[t] = <<>>
                 /\ stream' = stream
                 /\ BackendUntouched]_vars

\* A second Prepare has returned success after the one open of the first.
C5_Witness ==
    \E t \in Threads :
        /\ op[t] = "Prepare" /\ pc[t] = "done" /\ ret[t] = 0 /\ log[t] = <<>>
        /\ stream = 1 /\ opens = 1 /\ openHandles = {1}

\* C6, as claimed: a Prepare with a format outside the four fails with a
\* status of its own and issues no backend open request.
C6_RejectedBeforeOpen ==
    [][\A t \in Threads :
          (Body(t, "Prepare") /\ stream = 0 /\ loc[t].format \notin SupportedFormats)
              => /\ pc'[t] = "done"
                 /\ ret'[t] < 0 /\ ret'[t] # -1
                 /\ opens' = opens
                 /\ log'[t] = <<>>]_vars

\* C6, amended: a Prepare with a format outside the four that finds no handle
\* issues one backend open request, with the backend's Invalid format, and
\* returns BackendError (-1) exactly when the backend rejects that request.
C6_OpenIssuedWithInvalid ==
    [][\A t \in Threads :
          (Body(t, "Prepare") /\ stream = 0 /\ loc[t].format \notin SupportedFormats)
              => /\ pc'[t] = "done"
                 /\ opens' = opens + 1
                 /\ log'[t] # <<>> /\ log'[t][1] = "openStream(Invalid)"
                 /\ ret'[t] \in {0, -1, -EIO}
                 /\ ret'[t] = -1 <=> Len(log'[t]) = 1]_vars

\* A Prepare with a format outside the four has had its open request rejected
\* by the backend.
C6_Witness ==
    \E t \in Threads :
        /\ op[t] = "Prepare" /\ pc[t] = "done" /\ ret[t] = -1
        /\ log[t] = <<"openStream(Invalid)">>
        /\ opens > 0 /\ stream = 0

\* C7: a Prepare that finds no handle issues an open request; when the open
\* succeeds, Prepare returns IOError (-EIO) and releases the handle exactly
\* when the granted capacity is below the buffer size; after any failure no
\* handle is present; and Start, Write and Position without a handle return
\* NotReady.
C7_PrepareFailure ==
    [][\A t \in Threads :
          /\ (Body(t, "Prepare") /\ stream = 0)
                => /\ pc'[t] = "done"
                   /\ opens' = opens + 1
                   /\ Len(log'[t]) = 2
                         => /\ ret'[t] = (IF capacity' < BufferSize THEN -EIO ELSE 0)
                            /\ ret'[t] = 0 => stream' = opens'
                   /\ ret'[t] # 0 => (stream' = 0 /\ openHandles' = {})
          /\ (\E o \in {"Start", "Transfer", "Pointer"} : Body(t, o) /\ stream = 0)
                => (pc'[t] = "done" /\ ret'[t] = -EBADFD)]_vars

\* After a Prepare that the short capacity failed, a Position call has
\* returned NotReady.
C7_Witness ==
    \E t \in Threads :
        /\ op[t] = "Pointer" /\ pc[t] = "done" /\ ret[t] = -EBADFD /\ self[t] = THIS
        /\ opens > 0 /\ capacity = BufferSize - 1 /\ stream = 0 /\ openHandles = {}

\* C8: with no handle, Start, Stop, Pause, Drain, Position and a Write of
\* more than no frames return NotReady (-EBADFD), which is not BackendError
\* (-1), and make no backend call.
C8_NotReady ==
    [][\A t \in Threads :
          (/\ stream = 0
           /\ \/ \E o \in {"Start", "Stop", "Pause", "Drain", "Pointer"} : Body(t, o)
              \/ (Body(t, "Transfer") /\ loc[t].size > 0))
              => /\ pc'[t] = "done"
                 /\ ret'[t] = -EBADFD /\ ret'[t] # -1
                 /\ log'[t] = <<>>
                 /\ BackendUntouched]_vars

\* A Drain called with no handle has returned NotReady.
C8_Witness ==
    \E t \in Threads :
        /\ op[t] = "Drain" /\ pc[t] = "done" /\ ret[t] = -EBADFD /\ self[t] = THIS
        /\ log[t] = <<>> /\ stream = 0

\* C9, as claimed: a Write of no frames returns 0 and makes no backend call,
\* with a handle and without.
C9_EmptyWriteReturnsZero ==
    [][\A t \in Threads :
          (Body(t, "Transfer") /\ loc[t].size = 0)
              => (pc'[t] = "done" /\ ret'[t] = 0 /\ log'[t] = <<>>)]_vars

\* C9, amended: a Write of no frames makes no backend call; it returns 0 when
\* a handle is present, in any backend state, and NotReady (-EBADFD) when
\* none is.
C9_EmptyWrite ==
    [][\A t \in Threads :
          (Body(t, "Transfer") /\ loc[t].size = 0)
              => /\ pc'[t] = "done"
                 /\ ret'[t] = (IF stream = 0 THEN -EBADFD ELSE 0)
                 /\ log'[t] = <<>>
                 /\ BackendUntouched]_vars

\* A Write of no frames has returned 0 with a handle present.
C9_Witness ==
    \E t \in Threads :
        /\ op[t] = "Transfer" /\ pc[t] = "done" /\ ret[t] = 0 /\ log[t] = <<>>
        /\ self[t] = THIS /\ stream # 0

\* C10: a Stop that finds the stream Stopped or Flushed returns success after
\* the state query alone; and a Stop or Drain that succeeds has just seen the
\* stream Flushed or Stopped.
C10_StopWhenStopped ==
    [][\A t \in Threads :
          /\ (Body(t, "Stop") /\ stream # 0 /\ bstate \in {"Stopped", "Flushed"})
                => /\ pc'[t] = "done" /\ ret'[t] = 0
                   /\ log'[t] = <<"getState">>
                   /\ BackendUntouched
          /\ (pc[t] = "stop76" /\ pc'[t] = "done" /\ ret'[t] = 0)
                => loc[t].state = "Flushed"
          /\ (pc[t] = "drain258" /\ pc'[t] = "done" /\ ret'[t] = 0)
                => loc[t].state = "Stopped"]_vars

\* A Stop has found the stream already stopped and returned success.
C10_Witness ==
    \E t \in Threads :
        /\ op[t] = "Stop" /\ pc[t] = "done" /\ ret[t] = 0 /\ log[t] = <<"getState">>
        /\ stream # 0 /\ bstate \in {"Stopped", "Flushed"}

\* A clock reading in the model's smallest unit of time.
Nanos(tm) == tm.tv_sec * NsecPerSec + tm.tv_nsec

\* Thread t leaves Drain's polling loop through the safety valve in this step.
ValveFires(t) == pc[t] = "drain240" /\ pc'[t] = "drain251"

\* C11, as claimed: the safety valve fires only more than one second after
\* Drain began, with frames written, and never in a state where the backend's
\* frames-read counter is not zero.
C11_ValveOnlyWhileNothingRead ==
    [][\A t \in Threads :
          ValveFires(t)
              => /\ Nanos(loc'[t].now) > Nanos(loc[t].start)
                 /\ framesWritten > 0
                 /\ framesRead = 0]_vars

\* C11, amended: after each sleep Drain leaves the loop through the valve
\* exactly when the clock it then reads is more than one second past the
\* time Drain began and the frames-read value it sampled before the sleep was
\* 0; frames have been written then.  (The backend's counter may have moved
\* on since the sample.)
C11_ValveOnLastSample ==
    [][\A t \in Threads :
          (pc[t] = "drain240" /\ pc'[t] # pc[t])
              => /\ pc'[t] \in {"drain251", "drain225"}
                 /\ ValveFires(t)
                       <=> /\ Nanos(loc'[t].now) - (Nanos(loc[t].start) - DrainTimeoutSeconds * NsecPerSec)
                                > DrainTimeoutSeconds * NsecPerSec
                           /\ loc[t].framesRead = 0
                 /\ ValveFires(t) => framesWritten > 0]_vars

\* The valve has fired: Drain is about to request the stop with frames
\* written, none seen read, and the deadline behind it.
C11_Witness ==
    \E t \in Threads :
        /\ pc[t] = "drain251"
        /\ loc[t].framesRead = 0 /\ framesWritten > 0
        /\ TimeAfter(loc[t].now, loc[t].start)

\* C12: with a handle, Position returns BackendError or the frames-written
\* counter modulo the buffer size, a value in 0..BufferSize-1; and that
\* counter is the total of the frames the Writes since the open were told were
\* accepted: the open sets it to 0, a backend write adds the frames it
\* accepts, Transfer returns that number, and nothing else changes it.
C12_PositionWraps ==
    [][\A t \in Threads :
          /\ (Body(t, "Pointer") /\ stream # 0)
                => /\ pc'[t] = "done"
                   /\ log'[t] = <<"getFramesWritten">>
                   /\ \/ ret'[t] = -1
                      \/ /\ ret'[t] = framesWritten % BufferSize
                         /\ ret'[t] \in 0..(BufferSize - 1)
          /\ (pc[t] = "write137" /\ pc'[t] # pc[t])
                => /\ pc'[t] = "write138"
                   /\ framesWritten' = framesWritten +
                          (IF loc'[t].result > 0 THEN loc'[t].result ELSE 0)
          /\ (pc[t] = "write138" /\ pc'[t] # pc[t] /\ loc[t].result > 0)
                => ret'[t] = loc[t].result
          /\ (framesWritten' # framesWritten /\ pc[t] # "write137" /\ pc'[t] # pc[t])
                => (Body(t, "Prepare") /\ framesWritten' = 0)]_vars

\* Position has returned 0 after the Writes filled the buffer exactly once.
C12_Witness ==
    \E t \in Threads :
        /\ op[t] = "Pointer" /\ pc[t] = "done" /\ self[t] = THIS
        /\ stream # 0 /\ framesWritten = BufferSize /\ ret[t] = 0
        /\ log[t] = <<"getFramesWritten">>

\* C13: the status Transfer makes of the backend write of a Write of one or
\* more frames: WouldBlock (-EAGAIN) when it succeeded with no frame accepted,
\* blocking or not; exactly the number of frames accepted otherwise, which may
\* be fewer than asked for; BackendError exactly when the write failed.
C13_WriteStatus ==
    [][\A t \in Threads :
          /\ (pc[t] = "write137" /\ pc'[t] # pc[t])
                => /\ loc[t].size > 0
                   /\ loc'[t].result \in -1..loc[t].size
                   /\ WriteCall(IF loc[t].nonblock THEN 0 ELSE TimeoutSeconds) \in Range(log'[t])
          /\ (pc[t] = "write138" /\ pc'[t] # pc[t])
                => /\ pc'[t] = "done"
                   /\ loc[t].result = 0 => ret'[t] = -EAGAIN
                   /\ loc[t].result > 0 => ret'[t] = loc[t].result
                   /\ ret'[t] = -1 <=> loc[t].result < 0
                   /\ ret'[t] # 0
                   /\ BackendUntouched]_vars

\* A Write in blocking mode has returned WouldBlock.
C13_Witness ==
    \E t \in Threads :
        /\ op[t] = "Transfer" /\ pc[t] = "done" /\ ret[t] = -EAGAIN
        /\ WriteCall(TimeoutSeconds) \in Range(log[t])

\* Thread t makes a Close call in this step (one that is visible).
CloseStep(t) ==
    /\ pc[t] \in {"idle", "done"} /\ pc'[t] = "done" /\ op'[t] = "Close"
    /\ <<pc[t], op[t], ret[t], log[t], self[t], private_data>>
          # <<pc'[t], op'[t], ret'[t], log'[t], self'[t], private_data'>>

\* C14: Close returns success, with a handle present or not; a Close after a
\* Close returns success and changes neither the bridge nor the backend.
C14_CloseIdempotent ==
    [][\A t \in Threads :
          CloseStep(t)
              => /\ ret'[t] = 0
                 /\ private_data' = NULL
                 /\ private_data = NULL => UNCHANGED <<bridge, backend>>]_vars

\* Both threads have made their Close call, one after the other, and no
\* stream was ever opened.
C14_Witness ==
    /\ \A t \in Threads : op[t] = "Close" /\ pc[t] = "done" /\ ret[t] = 0
    /\ private_data = NULL /\ stream = 0 /\ opens = 0

\* C15: a Stop that has taken the guard returns (and so releases the guard),
\* whatever the backend does.
C15_StopTerminates ==
    \A t \in Threads :
        (op[t] = "Stop" /\ pc[t] = "locked") ~> (pc[t] \in {"done", "crashed"})

\* C16: a Drain that has taken the guard returns (and so releases the guard),
\* whatever the backend's counters do.
C16_DrainTerminates ==
    \A t \in Threads :
        (op[t] = "Drain" /\ pc[t] = "locked") ~> (pc[t] \in {"done", "crashed"})

\* C17: a Stop that finds the stream neither Stopped nor Flushed issues the
\* pause request first; it issues the flush request only with Paused as the
\* state it last observed, and after the pause request; it returns success
\* only with Flushed as the state it last observed, after both requests; a
\* rejected pause or flush request ends the call with BackendError, leaving
\* the backend as it was; and Stop issues no other request.
C17_StopOrdering ==
    [][\A t \in Threads :
          /\ (Body(t, "Stop") /\ stream # 0 /\ bstate \notin {"Stopped", "Flushed"})
                => /\ log'[t] = <<"getState", "requestPause">>
                   /\ \/ pc'[t] = "stop58" /\ bstate' = "Pausing"
                      \/ pc'[t] = "done" /\ ret'[t] = -1 /\ BackendUntouched
          /\ ("requestFlush" \notin Range(log[t]) /\ "requestFlush" \in Range(log'[t]))
                => /\ pc[t] = "stop59" /\ loc[t].state = "Paused"
                   /\ "requestPause" \in Range(log[t])
                   /\ \/ pc'[t] = "stop75" /\ bstate' = "Flushing"
                      \/ pc'[t] = "done" /\ ret'[t] = -1 /\ BackendUntouched
          /\ (op[t] = "Stop" /\ pc[t] \notin {"locked", "entry", "done", "idle"}
                /\ pc'[t] = "done" /\ ret'[t] = 0)
                => /\ pc[t] = "stop76" /\ loc[t].state = "Flushed"
                   /\ {"requestPause", "requestFlush"} \subseteq Range(log[t])
          /\ op'[t] = "Stop"
                => {"requestStart", "requestStop"} \cap Range(log'[t]) = {}]_vars

\* A Stop has gone through the pause, the flush and the two waits and has
\* returned success.
C17_Witness ==
    \E t \in Threads :
        /\ op[t] = "Stop" /\ pc[t] = "done" /\ ret[t] = 0
        /\ {"requestPause", "requestFlush", WaitCall(TimeoutSeconds)} \subseteq Range(log[t])
        /\ bstate = "Flushed"

\* C18: a Write of one or more frames that finds the stream in a state other
\* than Started queries the state and issues one start request, before any
\* backend write; it goes on to the write only when the start was accepted,
\* and otherwise returns BackendError with nothing written.  A Write that
\* finds the stream Started issues no request.  The backend write follows the
\* state query and the start request, if there was one.
C18_AutoStart ==
    [][\A t \in Threads :
          /\ (Body(t, "Transfer") /\ stream # 0 /\ loc[t].size > 0)
                => IF bstate # "Started"
                   THEN /\ log'[t] = <<"getState", "requestStart">>
                        /\ framesWritten' = framesWritten
                        /\ \/ pc'[t] = "write137" /\ bstate' = "Starting"
                           \/ /\ pc'[t] = "done" /\ ret'[t] = -1
                              /\ bstate' \in {bstate, "Starting"}
                   ELSE /\ log'[t] = <<"getState">>
                        /\ BackendUntouched
          /\ (pc[t] = "write137" /\ pc'[t] # pc[t])
                => /\ log[t] \in {<<"getState">>, <<"getState", "requestStart">>}
                   /\ Len(log'[t]) = Len(log[t]) + 1]_vars

\* A Write that found a stream with frames written earlier not started has
\* issued the start request and is about to write.
C18_Witness ==
    \E t \in Threads :
        /\ op[t] = "Transfer" /\ pc[t] = "write137"
        /\ log[t] = <<"getState", "requestStart">>
        /\ bstate = "Starting" /\ framesWritten > 0

\* C19: Drain leaves its polling loop for the stop request only when the
\* counters it read are equal or the valve fires; the stop request is issued
\* after the loop and nowhere else; Drain returns success only with Stopped as
\* the state it last observed, after the stop request; a negative counter
\* ends the call with BackendError and no stop request.
C19_DrainOrdering ==
    [][\A t \in Threads :
          /\ (pc[t] = "drain225" /\ pc'[t] # pc[t])
                => \/ pc'[t] = "drain251" /\ framesRead = framesWritten
                   \/ pc'[t] = "drain240" /\ framesRead # framesWritten
                   \/ /\ pc'[t] = "done" /\ ret'[t] = -1
                      /\ "requestStop" \notin Range(log'[t])
                      /\ BackendUntouched
          /\ (pc[t] # "drain251" /\ pc'[t] = "drain251")
                => \/ pc[t] = "drain225"
                   \/ pc[t] = "drain240" /\ loc[t].framesRead = 0
                                        /\ TimeAfter(loc'[t].now, loc[t].start)
          /\ ("requestStop" \notin Range(log[t]) /\ "requestStop" \in Range(log'[t]))
                => pc[t] = "drain251"
          /\ (op[t] = "Drain" /\ pc[t] \notin {"locked", "entry", "done", "idle"}
                /\ pc'[t] = "done" /\ ret'[t] = 0)
                => /\ pc[t] = "drain258" /\ loc[t].state = "Stopped"
                   /\ "requestStop" \in Range(log[t])]_vars

\* A Drain has seen all frames read, stopped the stream and returned success.
C19_Witness ==
    \E t \in Threads :
        /\ op[t] = "Drain" /\ pc[t] = "done" /\ ret[t] = 0
        /\ "requestStop" \in Range(log[t])
        /\ framesRead = framesWritten /\ framesWritten > 0 /\ bstate = "Stopped"

\* An hour, in seconds.
SecondsPerHour == 60 * 60

\* The backend calls that take no timeout.
UntimedCalls ==
    {"getState", "requestStart", "requestPause", "requestFlush", "requestStop",
     "getFramesWritten", "getFramesRead", "getBufferCapacityInFrames"}
    \cup {OpenStream(MapFormat(f)) : f \in HostFormats}

\* C20: every state wait of Stop and Drain and every blocking backend write
\* is given a timeout of one hour (and a non-blocking write none).
C20_LongTimeoutIsAnHour ==
    \A t \in Threads :
        Range(log[t]) \subseteq
            UntimedCalls \cup {WaitCall(SecondsPerHour), WriteCall(SecondsPerHour),
                               WriteCall(0)}

====
